---- MODULE Spec2Model ----
(***************************************************************************)
(* Wallet Memo backend (backend/server.js, build 83): the Express routes   *)
(* generate-pass, prepare-pass, download-pass, test-pass and health, the   *)
(* pending-pass token store, and createPass with its read-modify-write of  *)
(* the shared template file.                                               *)
(*                                                                         *)
(* Node runs one handler at a time; a handler gives up the thread only at  *)
(* an await.  Every action below is one such synchronous stretch.  A       *)
(* synchronous stretch is taken to be instantaneous: every Date.now() in   *)
(* it reads the same value of now.                                         *)
(***************************************************************************)
EXTENDS Integers, Sequences, FiniteSets, TLC

\* ------------------------------------------------------------ bounds

\* Clock advances the model takes (each by the TTL or by the TTL and 1 ms).
MaxTicks == 1
\* Distinct values Math.random().toString(36).substr(2, n) is drawn from.
NumSuffix == 2
\* prepare-pass calls in one behaviour.
MaxPrepare == 2
\* Pass requests (generate-pass, download-pass, test-pass) in one behaviour;
\* they may all be in flight together.
NumReq == 2

\* ------------------------------------------------- program constants

PASS_TOKEN_TTL == 5 * 60 * 1000
BUILD_NUMBER == 83

\* The pass requests (generate-pass, download-pass, test-pass) of a behaviour.
Req == 1..NumReq

Suffix == 1..NumSuffix

\* Request bodies { text, color, drawingDataUrl }.
Bodies ==
  { [text |-> "memo", color |-> "blue", drawingDataUrl |-> "none"],
    [text |-> "",     color |-> "pink", drawingDataUrl |-> "big"] }

NoBody == [text |-> "", color |-> "", drawingDataUrl |-> ""]

\* What a client may put in the three fields of a JSON body.  text: absent
\* or empty, blanks only, a memo, a memo between blanks, the number 42
\* (written "<42>").  color: the
\* three palette names and one that is none of them.  drawingDataUrl: absent,
\* a data URL of at most 1000 characters, a longer one that decodes to an
\* image, a longer one that does not.
Texts == {"", "  ", "memo", " memo ", "<42>"}
Colors == {"blue", "yellow", "pink", "green"}
Drawings == {"none", "small", "big", "bad"}
AllBodies == [text : Texts, color : Colors, drawingDataUrl : Drawings]

\* ------------------------------------------------------------- state

VARIABLES
  now,            \* Date.now()
  certs,          \* which of P12_BASE64, WWDR_PEM, certs/pass.p12, certs/wwdr.pem exist
  pendingPasses,  \* the Map token -> { text, color, drawingDataUrl, createdAt }
  templateFile,   \* templates/walletmemo.pass/pass.json on disk
  req,            \* the pass requests: route, position, locals and response
  health,         \* the status the last GET /api/health answered
  prepared,       \* history: the prepare-pass calls in order, each with the
                  \* token it returned and the body it was sent
  canvas,         \* one image-rendering call with a decodable drawing: which
                  \* renderer, the size of the decoded image and the rectangle
                  \* it is drawn in
  picker,         \* the language picker of a page (lang-picker.js): the
                  \* localStorage value, navigator.language, currentLang, the
                  \* button label, the options with class 'active', and the
                  \* onLanguageChange calls so far
  tokenHist       \* history, per token a prepare-pass call has returned: the
                  \* ordinal of the last such call, the number of download-pass
                  \* calls that found an entry under the token, and whether an
                  \* entry under it was ever deleted

vars == <<now, certs, pendingPasses, templateFile, req, health, canvas, picker, prepared, tokenHist>>

\* ----------------------------------------------------------- values

Token(t, s) == [t |-> t, r |-> s]
NoToken == [t |-> -1, r |-> 0]
\* A token no prepare-pass call returns (a guessed or mistyped one).
BogusToken == [t |-> -2, r |-> 0]

NoEntry == [text |-> "", color |-> "", drawingDataUrl |-> "", createdAt |-> -1]

\* templates/walletmemo.pass/pass.json as deployed.
TemplateSecondary == [key |-> "template", label |-> "template", value |-> "template"]
TemplateDescriptor ==
  [ organizationName |-> "template",
    backgroundColor |-> "template", foregroundColor |-> "template",
    labelColor |-> "template", serialNumber |-> NoToken,
    backField |-> "template", secondaryFields |-> TemplateSecondary ]

\* The files of the model directory templates/walletmemo.pass.
TemplateFiles == {"pass.json"}

\* No strip rendered (yet).
NoStrip == [fill |-> "", overlay |-> FALSE, threw |-> FALSE]

NoHist == [id |-> 0, found |-> 0, gone |-> FALSE]

NoRes == [status |-> 0, ctype |-> "", body |-> ""]

IdleReq ==
  [ route |-> "none", pc |-> "idle", token |-> NoToken,
    found |-> FALSE, createdAt |-> -1, age |-> 0, entryId |-> 0, args |-> NoBody,
    source |-> "", invoked |-> FALSE, threw |-> FALSE, signed |-> FALSE,
    pass |-> TemplateDescriptor, loaded |-> FALSE,
    ops |-> <<>>, files |-> {}, strip |-> NoStrip, icon |-> "", res |-> NoRes ]

\* ------------------------------------------------ certificate material

\* checkCerts without its test for certs/wwdr.pem.
checkCerts_NoWwdrTest ==
  IF certs.envP12 /\ certs.envWwdr THEN TRUE
  ELSE IF ~certs.fileP12 THEN FALSE
  ELSE TRUE

checkCerts ==
  IF certs.envP12 /\ certs.envWwdr THEN TRUE
  ELSE IF ~certs.fileP12 THEN FALSE
  ELSE IF ~certs.fileWwdr THEN FALSE
  ELSE TRUE

\* getCertificates taking the environment as soon as P12_BASE64 is set.
getCertificatesSource_AnyEnv == IF certs.envP12 THEN "env" ELSE "files"

\* Where getCertificates reads the container and the WWDR certificate from
\* (lines 67-73).
getCertificatesSource ==
  IF certs.envP12 /\ certs.envWwdr THEN "env" ELSE "files"

\* The reads of getCertificates from source succeed: readFileSync throws for
\* a missing file, and an unset variable yields no certificate.
SourceReadable(source) ==
  IF source = "env" THEN certs.envP12 /\ certs.envWwdr
                    ELSE certs.fileP12 /\ certs.fileWwdr

\* ------------------------------------------------------------ palette

getBackgroundColor(color) ==
  CASE color = "blue"   -> "rgb(157, 213, 238)"
    [] color = "yellow" -> "rgb(226, 208, 96)"
    [] color = "pink"   -> "rgb(228, 184, 192)"
    [] OTHER            -> "rgb(157, 213, 238)"

logoTextColors(color) ==
  CASE color = "blue"   -> "rgb(120, 175, 200)"
    [] color = "yellow" -> "rgb(190, 175, 60)"
    [] color = "pink"   -> "rgb(195, 150, 160)"
    [] OTHER            -> "rgb(120, 175, 200)"

\* String.prototype.trim on the texts of the model.
Trim(text) ==
  IF text = "  " THEN "" ELSE IF text = " memo " THEN "memo" ELSE text

\* typeof text === 'string'.
IsString(text) == text # "<42>"

\* `text && text.trim()` throws: text is truthy and has no trim method.
TrimThrows(text) == text # "" /\ ~IsString(text)

\* `text && text.trim()` without the trim.
MemoGiven_NoTrim(text) == text # ""

\* `text && text.trim()` is truthy (line 143).
MemoGiven(text) == text # "" /\ Trim(text) # ""

\* ------------------------------------------------------ strip geometry

\* The numbers of generateStripImage are fractions n/d in lowest terms with
\* d > 0, so that equal numbers are equal records.
RECURSIVE Gcd(_, _)
Gcd(a, b) == IF b = 0 THEN a ELSE Gcd(b, a % b)

Abs(n) == IF n < 0 THEN -n ELSE n

Q(n, d) ==
  LET g == Gcd(Abs(n), d)
  IN  [n |-> n \div g, d |-> d \div g]

QMul(x, y) == Q(x.n * y.n, x.d * y.d)
QDiv(x, y) == Q(x.n * y.d, x.d * y.n)
QSub(x, y) == Q(x.n * y.d - y.n * x.d, x.d * y.d)
QGt(x, y) == x.n * y.d > y.n * x.d

\* The strip canvas (lines 286-287) and the factor of lines 311 and 314.
StripWidth == 1125
StripHeight == 432
StripMargin == Q(9, 10)

NoBox == [drawX |-> Q(0, 1), drawY |-> Q(0, 1), drawWidth |-> Q(0, 1), drawHeight |-> Q(0, 1)]

\* The rectangle with the other test: the shorter side fills the canvas.
ContainBox_Cover(w, h) ==
  LET width == Q(StripWidth, 1)
      height == Q(StripHeight, 1)
      srcAspect == Q(w, h)
      drawWidth == IF QGt(srcAspect, QDiv(width, height))
                     THEN QMul(QMul(height, StripMargin), srcAspect)
                     ELSE QMul(width, StripMargin)
      drawHeight == IF QGt(srcAspect, QDiv(width, height))
                      THEN QMul(height, StripMargin)
                      ELSE QDiv(QMul(width, StripMargin), srcAspect)
  IN  [ drawX |-> QDiv(QSub(width, drawWidth), Q(2, 1)),
        drawY |-> QDiv(QSub(height, drawHeight), Q(2, 1)),
        drawWidth |-> drawWidth, drawHeight |-> drawHeight ]

\* The rectangle without the margin: the drawing scaled to the full canvas.
ContainBox_NoMargin(w, h) ==
  LET width == Q(StripWidth, 1)
      height == Q(StripHeight, 1)
      srcAspect == Q(w, h)
      drawWidth == IF QGt(srcAspect, QDiv(width, height))
                     THEN width
                     ELSE QMul(height, srcAspect)
      drawHeight == IF QGt(srcAspect, QDiv(width, height))
                      THEN QDiv(width, srcAspect)
                      ELSE height
  IN  [ drawX |-> QDiv(QSub(width, drawWidth), Q(2, 1)),
        drawY |-> QDiv(QSub(height, drawHeight), Q(2, 1)),
        drawWidth |-> drawWidth, drawHeight |-> drawHeight ]

\* The rectangle generateStripImage draws a decoded w x h image in
\* (lines 307-319).
ContainBox(w, h) ==
  LET width == Q(StripWidth, 1)
      height == Q(StripHeight, 1)
      srcAspect == Q(w, h)
      drawWidth == IF QGt(srcAspect, QDiv(width, height))
                     THEN QMul(width, StripMargin)
                     ELSE QMul(QMul(height, StripMargin), srcAspect)
      drawHeight == IF QGt(srcAspect, QDiv(width, height))
                      THEN QDiv(QMul(width, StripMargin), srcAspect)
                      ELSE QMul(height, StripMargin)
  IN  [ drawX |-> QDiv(QSub(width, drawWidth), Q(2, 1)),
        drawY |-> QDiv(QSub(height, drawHeight), Q(2, 1)),
        drawWidth |-> drawWidth, drawHeight |-> drawHeight ]

\* The background canvas of generateBackgroundImage (lines 336-337).
BackgroundWidth == 1700
BackgroundHeight == 1996

\* The background rectangle centered on the vertical axis as well.
BackgroundBox_Centered(w, h) ==
  LET width == Q(BackgroundWidth, 1)
      height == Q(BackgroundHeight, 1)
      srcAspect == Q(w, h)
      availableHeight == QMul(height, Q(7, 10))
      drawWidth == IF QGt(srcAspect, QDiv(width, availableHeight))
                     THEN QMul(width, Q(9, 10))
                     ELSE QMul(QMul(availableHeight, Q(9, 10)), srcAspect)
      drawHeight == IF QGt(srcAspect, QDiv(width, availableHeight))
                      THEN QDiv(QMul(width, Q(9, 10)), srcAspect)
                      ELSE QMul(availableHeight, Q(9, 10))
  IN  [ drawX |-> QDiv(QSub(width, drawWidth), Q(2, 1)),
        drawY |-> QDiv(QSub(height, drawHeight), Q(2, 1)),
        drawWidth |-> drawWidth, drawHeight |-> drawHeight ]

\* The rectangle generateBackgroundImage draws a decoded w x h image in
\* (lines 358-374).
BackgroundBox(w, h) ==
  LET width == Q(BackgroundWidth, 1)
      height == Q(BackgroundHeight, 1)
      srcAspect == Q(w, h)
      availableHeight == QMul(height, Q(7, 10))
      drawWidth == IF QGt(srcAspect, QDiv(width, availableHeight))
                     THEN QMul(width, Q(9, 10))
                     ELSE QMul(QMul(availableHeight, Q(9, 10)), srcAspect)
      drawHeight == IF QGt(srcAspect, QDiv(width, availableHeight))
                      THEN QDiv(QMul(width, Q(9, 10)), srcAspect)
                      ELSE QMul(availableHeight, Q(9, 10))
  IN  [ drawX |-> QDiv(QSub(width, drawWidth), Q(2, 1)),
        drawY |-> QMul(height, Q(8, 100)),
        drawWidth |-> drawWidth, drawHeight |-> drawHeight ]

\* The strip canvas of build 36 (part_001, lines 645-646).
CoverWidth == 1125
CoverHeight == 294

\* The build 36 rectangle with the branches exchanged: the drawing fitted
\* inside the canvas.
CoverBox_Fit(w, h) ==
  LET width == Q(CoverWidth, 1)
      height == Q(CoverHeight, 1)
      srcAspect == Q(w, h)
      dstAspect == QDiv(width, height)
  IN  IF QGt(srcAspect, dstAspect)
        THEN [ drawWidth |-> width, drawHeight |-> QDiv(width, srcAspect),
               drawX |-> Q(0, 1),
               drawY |-> QDiv(QSub(height, QDiv(width, srcAspect)), Q(2, 1)) ]
        ELSE [ drawWidth |-> QMul(height, srcAspect), drawHeight |-> height,
               drawX |-> QDiv(QSub(width, QMul(height, srcAspect)), Q(2, 1)),
               drawY |-> Q(0, 1) ]

\* The rectangle generateStripImage of build 36 draws a decoded w x h image
\* in (part_001, lines 707-724).
CoverBox(w, h) ==
  LET width == Q(CoverWidth, 1)
      height == Q(CoverHeight, 1)
      srcAspect == Q(w, h)
      dstAspect == QDiv(width, height)
  IN  IF QGt(srcAspect, dstAspect)
        THEN [ drawWidth |-> QMul(height, srcAspect), drawHeight |-> height,
               drawX |-> QDiv(QSub(width, QMul(height, srcAspect)), Q(2, 1)),
               drawY |-> Q(0, 1) ]
        ELSE [ drawWidth |-> width, drawHeight |-> QDiv(width, srcAspect),
               drawX |-> Q(0, 1),
               drawY |-> QDiv(QSub(height, QDiv(width, srcAspect)), Q(2, 1)) ]

\* No drawing decoded.
NoCanvas == [kind |-> "none", pc |-> "none", w |-> 0, h |-> 0, box |-> NoBox]

\* No page with a language picker.
NoPicker ==
  [ pc |-> "none", stored |-> "null", language |-> "", currentLang |-> "",
    label |-> "", active |-> {}, open |-> FALSE, calls |-> <<>>,
    events |-> <<>> ]

\* ---------------------------------------------------------- the store

MapSet(m, k, v) == [x \in DOMAIN m \cup {k} |-> IF x = k THEN v ELSE m[x]]
MapDelete(m, ks) == [x \in DOMAIN m \ ks |-> m[x]]

\* prepare-pass storing the entry without the drawing.
PendingEntry_NoDrawing(body) ==
  [ text |-> body.text, color |-> body.color,
    drawingDataUrl |-> "none", createdAt |-> now ]

\* The entry prepare-pass stores for a request body.
PendingEntry(body) ==
  [ text |-> body.text, color |-> body.color,
    drawingDataUrl |-> body.drawingDataUrl, createdAt |-> now ]

\* The clean-up loop deleting at the TTL already.
Expired_AtTtl(m) == {k \in DOMAIN m : now - m[k].createdAt >= PASS_TOKEN_TTL}

\* The keys the clean-up loop of prepare-pass deletes from m.
Expired(m) == {k \in DOMAIN m : now - m[k].createdAt > PASS_TOKEN_TTL}

\* download-pass without its delete before the await.
StoreAfterGet_Kept(token) == pendingPasses

\* The store download-pass leaves after it has read the entry of token.
StoreAfterGet(token) == MapDelete(pendingPasses, {token})

\* What download-pass hands to createPass: passData, of which createPass
\* reads text, color and drawingDataUrl.
CreatePassArgs(passData) ==
  [ text |-> passData.text, color |-> passData.color,
    drawingDataUrl |-> passData.drawingDataUrl ]

\* The number of prepare-pass calls so far.
NumPrepared == Len(prepared)

\* ---------------------------------------------------------- responses

PkpassType == "application/vnd.apple.pkpass"

ErrorResponse(route) ==
  [ status |-> 500,
    ctype |-> IF route = "test" THEN "text/html" ELSE "application/json",
    body |-> "error" ]

PassResponse == [status |-> 200, ctype |-> PkpassType, body |-> "bundle"]

NotFoundResponse == [status |-> 404, ctype |-> "application/json", body |-> "error"]

\* A pass route that sets the headers and sends whatever it has.
Respond_AlwaysSend(route, threw) == PassResponse

\* The rest of a pass route after `await createPass(...)`: the catch block
\* when it rejected, res.set and res.send when it resolved.
Respond(route, threw) == IF threw THEN ErrorResponse(route) ELSE PassResponse

\* --------------------------------------------------------- createPass

\* The number of getCertificates() calls so far: createPass starts with one
\* (line 101), and nothing else calls it.
CertificateLoads == Cardinality({r \in Req : req[r].invoked})

\* `memo-${Date.now()}-${Math.random().toString(36).substr(2, 9)}`: the
\* clock value and the drawn suffix, kept apart.
SerialNumber(s) == Token(now, s)

\* createPass writing back only the serial number.
TemplateAfterWrite_SerialOnly(color, s) ==
  [templateFile EXCEPT !.serialNumber = SerialNumber(s)]

\* pass.json after the read-modify-write of createPass (lines 104-123).
TemplateAfterWrite(color, s) ==
  [ templateFile EXCEPT
      !.backgroundColor = getBackgroundColor(color),
      !.foregroundColor = logoTextColors(color),
      !.labelColor = logoTextColors(color),
      !.serialNumber = SerialNumber(s) ]

\* createPass that also sets the organization name of the pass.
PassAfterFrom_Rebrand(text, s) ==
  [ templateFile EXCEPT
      !.organizationName = "Wallet Memo",
      !.serialNumber = SerialNumber(s),
      !.backField = ToString(BUILD_NUMBER),
      !.secondaryFields =
        IF MemoGiven(text)
          THEN [key |-> "memo", label |-> "Note", value |-> text]
          ELSE templateFile.secondaryFields ]

\* The descriptor of the pass PKPass.from builds from the model directory
\* (it reads pass.json as it is on disk when the read happens), after the
\* overrides of lines 135-151.
PassAfterFrom(text, s) ==
  [ templateFile EXCEPT
      !.serialNumber = SerialNumber(s),
      !.backField = ToString(BUILD_NUMBER),
      !.secondaryFields =
        IF MemoGiven(text)
          THEN [key |-> "memo", label |-> "Note", value |-> text]
          ELSE templateFile.secondaryFields ]

\* The changes createPass makes to the pass between PKPass.from and the
\* await of generateStripImage, in program order (lines 135-151).
DescriptorOps(text) ==
  <<"serialNumber", "backFields">>
    \o (IF MemoGiven(text) THEN <<"secondaryFields">> ELSE <<>>)

\* The strip fill of generateStripImage.
flatColors(color) ==
  CASE color = "blue"   -> "#B8E8F8"
    [] color = "yellow" -> "#F0E480"
    [] color = "pink"   -> "#F0C8D0"
    [] OTHER            -> "#B8E8F8"

\* drawingDataUrl.length of the drawings of the model: the short data URL
\* has exactly 1000 characters, the long ones more.
DrawingLength(drawing) ==
  CASE drawing = "small" -> 1000
    [] drawing = "big"   -> 1001
    [] drawing = "bad"   -> 2000
    [] OTHER             -> 0

\* The gate letting a drawing of 1000 characters through.
AboveThreshold_AtThreshold(drawing) ==
  drawing # "none" /\ DrawingLength(drawing) >= 1000

\* `drawingDataUrl && drawingDataUrl.length > 1000`.
AboveThreshold(drawing) ==
  drawing # "none" /\ DrawingLength(drawing) > 1000

\* loadImage resolves for the decoded bytes of the data URL.
Decodes(drawing) == drawing \in {"small", "big"}

\* generateStripImage without the try/catch around the overlay.
generateStripImage_NoCatch(color, drawing) ==
  [ fill |-> flatColors(color),
    overlay |-> AboveThreshold(drawing) /\ Decodes(drawing),
    threw |-> AboveThreshold(drawing) /\ ~Decodes(drawing) ]

\* generateStripImage: the fill, whether the drawing was drawn over it, and
\* whether the call rejected (a failed loadImage is caught, line 323).
generateStripImage(color, drawing) ==
  [ fill |-> flatColors(color),
    overlay |-> AboveThreshold(drawing) /\ Decodes(drawing),
    threw |-> FALSE ]

\* The fill of generateIconImage: its own flatColors table (lines 392-398).
generateIconImage(color) ==
  CASE color = "blue"   -> "#B8E8F8"
    [] color = "yellow" -> "#F0E480"
    [] color = "pink"   -> "#F0C8D0"
    [] OTHER            -> "#B8E8F8"

\* createPass adding only the 1x images.
AddedFiles_NoRetina == <<"strip.png", "icon.png">>

\* The names of the addBuffer calls, in program order (lines 158-164).
AddedFiles ==
  <<"strip.png", "strip@2x.png", "strip@3x.png", "icon.png", "icon@2x.png">>

\* pass.addBuffer(name, buffer) for each name: the file is added, or replaced.
AddBuffers(files, names) == files \cup {names[i] : i \in DOMAIN names}

\* createPass building the bundle before it adds the icons.
BundleOps_SignBeforeIcons ==
  <<"addBuffer", "addBuffer", "addBuffer", "getAsBuffer", "addBuffer", "addBuffer">>

\* The calls on the pass after the images are rendered, in program order
\* (lines 158-168).
BundleOps ==
  [i \in DOMAIN AddedFiles |-> "addBuffer"] \o <<"getAsBuffer">>

\* The rest of a pass route once createPass has settled.  createPass and
\* the handler touch nothing shared after PKPass.from, so the model takes
\* the handler's last stretch together with the step that settles createPass.
\* The half-built pass of a rejected createPass is dropped.
Settled(h, threw) ==
  IF threw
    THEN [h EXCEPT !.pc = "done", !.threw = TRUE, !.loaded = FALSE,
                   !.pass = TemplateDescriptor, !.ops = <<>>, !.files = {},
                   !.res = Respond(h.route, TRUE)]
    ELSE [h EXCEPT !.pc = "done", !.signed = TRUE,
                   !.res = Respond(h.route, FALSE)]

\* A handler calls createPass(args): the call runs to the first await
\* (line 126).  certsOk: getCertificates() returned; otherwise it threw
\* (undecodable container, wrong password) and createPass rejects before it
\* has read the template.
CallCreatePass(r, h, args, certsOk, s) ==
  LET source == getCertificatesSource
      called == [h EXCEPT !.args = args, !.invoked = TRUE, !.source = source]
  IN  IF certsOk /\ SourceReadable(source)
        THEN /\ req' = [req EXCEPT ![r] = [called EXCEPT !.pc = "from"]]
             /\ templateFile' = TemplateAfterWrite(args.color, s)
        ELSE /\ req' = [req EXCEPT ![r] = Settled(called, TRUE)]
             /\ UNCHANGED templateFile

\* PKPass.from reads the model directory and settles; on success createPass
\* runs on to the await of generateStripImage (lines 126-154), unless
\* text.trim() throws on the way.
PKPassFrom(r) ==
  /\ req[r].pc = "from"
  /\ \E ok \in BOOLEAN, s \in Suffix :
       req' = [req EXCEPT ![r] =
                 IF ok /\ ~TrimThrows(req[r].args.text)
                   THEN [@ EXCEPT !.pc = "images", !.loaded = TRUE,
                                  !.pass = PassAfterFrom(req[r].args.text, s),
                                  !.files = TemplateFiles,
                                  !.ops = DescriptorOps(req[r].args.text)]
                   ELSE Settled(@, TRUE)]
  /\ UNCHANGED <<now, certs, canvas, picker, pendingPasses, templateFile, health, prepared, tokenHist>>

\* The images are rendered and added and pass.getAsBuffer() builds the
\* manifest, signs it and zips (lines 154-168), or one of them throws; the
\* handler answers.
FinishPass(r) ==
  /\ req[r].pc = "images"
  /\ LET strip == generateStripImage(req[r].args.color, req[r].args.drawingDataUrl)
     IN  IF strip.threw
           THEN req' = [req EXCEPT ![r] = Settled([@ EXCEPT !.strip = strip], TRUE)]
           ELSE \E ok \in BOOLEAN :
                  req' = [req EXCEPT ![r] =
                            IF ok
                              THEN Settled([@ EXCEPT
                                              !.strip = strip,
                                              !.icon = generateIconImage(req[r].args.color),
                                              !.files = AddBuffers(@, AddedFiles),
                                              !.ops = @ \o BundleOps], FALSE)
                              ELSE Settled(@, TRUE)]
  /\ UNCHANGED <<now, certs, canvas, picker, pendingPasses, templateFile, health, prepared, tokenHist>>

\* ------------------------------------------------------------- routes

\* Request r has not arrived yet.  The requests are numbered in arrival order.
Free(r) == req[r].pc = "idle" /\ (IF r = 1 THEN TRUE ELSE req[r - 1].pc # "idle")

Begin(route) == [IdleReq EXCEPT !.route = route]

\* POST /api/generate-pass with a body of bodies, up to its first await.
GeneratePassOf(r, bodies) ==
  /\ Free(r)
  /\ \E body \in bodies, certsOk \in BOOLEAN, s \in Suffix :
       IF ~checkCerts
         THEN /\ req' = [req EXCEPT ![r] =
                           [Begin("generate") EXCEPT
                              !.pc = "done", !.res = ErrorResponse("generate")]]
              /\ UNCHANGED templateFile
         ELSE CallCreatePass(r, Begin("generate"), body, certsOk, s)
  /\ UNCHANGED <<now, certs, canvas, picker, pendingPasses, health, prepared, tokenHist>>

GeneratePass(r) == GeneratePassOf(r, Bodies)

\* GET /test-pass?color=...&text=..., up to its first await.
TestQueries == { [text |-> "Test Memo", color |-> "blue"] }

TestPass(r) ==
  /\ Free(r)
  /\ \E q \in TestQueries, certsOk \in BOOLEAN, s \in Suffix :
       IF ~checkCerts
         THEN /\ req' = [req EXCEPT ![r] =
                           [Begin("test") EXCEPT
                              !.pc = "done", !.res = ErrorResponse("test")]]
              /\ UNCHANGED templateFile
         ELSE CallCreatePass(r, Begin("test"),
                [text |-> q.text, color |-> q.color, drawingDataUrl |-> "none"],
                certsOk, s)
  /\ UNCHANGED <<now, certs, canvas, picker, pendingPasses, health, prepared, tokenHist>>

\* GET /api/health.
Health ==
  /\ health' = IF checkCerts THEN "ready" ELSE "missing-certs"
  /\ UNCHANGED <<now, certs, canvas, picker, pendingPasses, templateFile, req, prepared, tokenHist>>

\* POST /api/prepare-pass with a body of bodies: the whole handler (it has
\* no await).
PreparePassOf(bodies) ==
  /\ NumPrepared < MaxPrepare
  /\ \E body \in bodies, s \in Suffix :
       LET token == Token(now, s)
           stored == MapSet(pendingPasses, token, PendingEntry(body))
           old == Expired(stored)
       IN  /\ pendingPasses' = MapDelete(stored, old)
           /\ prepared' = Append(prepared, [token |-> token, body |-> body])
           /\ tokenHist' =
                [t \in DOMAIN tokenHist \cup {token} |->
                   LET h == IF t \in DOMAIN tokenHist
                              THEN tokenHist[t] ELSE NoHist
                       g == IF t = token
                              THEN [h EXCEPT !.id = NumPrepared + 1]
                              ELSE h
                   IN  IF t \in old THEN [g EXCEPT !.gone = TRUE] ELSE g]
  /\ UNCHANGED <<now, certs, canvas, picker, templateFile, req, health>>

PreparePass == PreparePassOf(Bodies)

\* GET /api/download-pass/:token, up to its first await.
DownloadPass(r) ==
  /\ Free(r)
  /\ \E token \in DOMAIN tokenHist \cup {BogusToken},
        certsOk \in BOOLEAN, s \in Suffix :
       IF token \notin DOMAIN pendingPasses
         THEN /\ req' = [req EXCEPT ![r] =
                           [Begin("download") EXCEPT
                              !.pc = "done", !.token = token,
                              !.res = NotFoundResponse]]
              /\ UNCHANGED <<pendingPasses, templateFile, tokenHist>>
         ELSE LET passData == pendingPasses[token]
                  h == [Begin("download") EXCEPT
                          !.token = token, !.found = TRUE,
                          !.createdAt = passData.createdAt,
                          !.age = now - passData.createdAt,
                          !.entryId = tokenHist[token].id]
              IN  /\ pendingPasses' = StoreAfterGet(token)
                  /\ tokenHist' =
                       [tokenHist EXCEPT
                          ![token] = [@ EXCEPT
                                        !.found = @ + 1,
                                        !.gone = @ \/ token \notin DOMAIN pendingPasses']]
                  /\ IF ~checkCerts
                       THEN /\ req' = [req EXCEPT ![r] =
                                         [h EXCEPT !.pc = "done",
                                                   !.res = ErrorResponse("download")]]
                            /\ UNCHANGED templateFile
                       ELSE CallCreatePass(r, h, CreatePassArgs(passData), certsOk, s)
  /\ UNCHANGED <<now, certs, canvas, picker, health, prepared>>

\* -------------------------------------------------------------- clock

TicksOf(n) == n \div PASS_TOKEN_TTL

\* Time passes: exactly the TTL, or a millisecond more.
Tick ==
  /\ TicksOf(now) < MaxTicks
  /\ \E d \in {PASS_TOKEN_TTL, PASS_TOKEN_TTL + 1} : now' = now + d
  /\ UNCHANGED <<certs, canvas, picker, pendingPasses, templateFile, req, health, prepared, tokenHist>>

\* ------------------------------------------------------ specification

\* Every combination of the two environment variables and the two files.
CertConfigs ==
  [envP12 : BOOLEAN, envWwdr : BOOLEAN, fileP12 : BOOLEAN, fileWwdr : BOOLEAN]

\* The deployments of the documentation: production sets the environment
\* variables and ships no files; a fresh checkout has neither.
Production ==
  [envP12 |-> TRUE, envWwdr |-> TRUE, fileP12 |-> FALSE, fileWwdr |-> FALSE]

Deployments ==
  { Production,
    [envP12 |-> FALSE, envWwdr |-> FALSE, fileP12 |-> FALSE, fileWwdr |-> FALSE] }

ServerStarted ==
  /\ now = 0
  /\ pendingPasses = [t \in {} |-> NoEntry]
  /\ templateFile = TemplateDescriptor
  /\ req = [r \in Req |-> IdleReq]
  /\ health = "none"
  /\ prepared = <<>>
  /\ tokenHist = [t \in {} |-> NoHist]

Started == ServerStarted /\ canvas = NoCanvas /\ picker = NoPicker

Init == certs \in Deployments /\ Started

Next ==
  \/ Tick
  \/ PreparePass
  \/ \E r \in Req :
       \/ GeneratePass(r)
       \/ DownloadPass(r)
       \/ TestPass(r)
       \/ PKPassFrom(r)
       \/ FinishPass(r)

\* The server under the deployments of the documentation, with NumReq pass
\* requests that may overlap.
Spec == Init /\ [][Next]_vars

\* The server under every combination of certificate material, serving one
\* pass request, the health probe and the token flow.
InitCerts == certs \in CertConfigs /\ Started

NextCerts ==
  \/ PreparePass
  \/ Health
  \/ GeneratePass(1)
  \/ DownloadPass(1)
  \/ TestPass(1)
  \/ PKPassFrom(1)
  \/ FinishPass(1)

SpecCerts == InitCerts /\ [][NextCerts]_vars

\* The token store with one download-pass request.  The clock advances and
\* a pending promise settles; no client is bound to send another request.
NextStore ==
  \/ Tick
  \/ PreparePass
  \/ DownloadPass(1)
  \/ PKPassFrom(1)
  \/ FinishPass(1)

SpecStore ==
  /\ Init /\ [][NextStore]_vars
  /\ WF_vars(Tick) /\ WF_vars(PKPassFrom(1)) /\ WF_vars(FinishPass(1))

\* One pass request in production, its body any of AllBodies, sent to
\* generate-pass or to prepare-pass and then fetched.
PreparePassOnce == NumPrepared = 0 /\ PreparePassOf(AllBodies)

InitPass == certs = Production /\ Started

NextPass ==
  \/ GeneratePassOf(1, AllBodies)
  \/ PreparePassOnce
  \/ DownloadPass(1)
  \/ PKPassFrom(1)
  \/ FinishPass(1)

SpecPass == InitPass /\ [][NextPass]_vars

\* No createPass call is in progress.
Quiet == \A r \in Req : req[r].pc \in {"idle", "done"}

\* The server with requests that do not overlap: a pass request arrives only
\* when no createPass call is in progress.
NextSeq ==
  \/ Tick
  \/ PreparePass
  \/ \E r \in Req :
       \/ Quiet /\ GeneratePass(r)
       \/ Quiet /\ DownloadPass(r)
       \/ Quiet /\ TestPass(r)
       \/ PKPassFrom(r)
       \/ FinishPass(r)

SpecSeq == Init /\ [][NextSeq]_vars

\* generateStripImage drawing a decoded image of any of the sizes below.
MaxDim == 8
Dims == 1..MaxDim \cup {48, 125, 432, 1125}

\* The overlay branch of generateStripImage once loadImage has resolved
\* (lines 307-321).
DrawStrip ==
  /\ canvas.kind = "strip" /\ canvas.pc = "decoded"
  /\ canvas' = [canvas EXCEPT !.pc = "drawn",
                              !.box = ContainBox(canvas.w, canvas.h)]
  /\ UNCHANGED <<now, certs, picker, pendingPasses, templateFile, req, health, prepared, tokenHist>>

InitStrip ==
  /\ certs = Production /\ ServerStarted /\ picker = NoPicker
  /\ canvas \in { [kind |-> "strip", pc |-> "decoded", w |-> w, h |-> h, box |-> NoBox] :
                     w, h \in Dims }

NextStrip == DrawStrip

SpecStrip == InitStrip /\ [][NextStrip]_vars

\* generateBackgroundImage drawing a decoded image of any of the sizes below.
BackgroundDims == 1..MaxDim \cup {1700, 1996}

\* The overlay branch of generateBackgroundImage once loadImage has
\* resolved (lines 358-376).
DrawBackground ==
  /\ canvas.kind = "background" /\ canvas.pc = "decoded"
  /\ canvas' = [canvas EXCEPT !.pc = "drawn",
                              !.box = BackgroundBox(canvas.w, canvas.h)]
  /\ UNCHANGED <<now, certs, picker, pendingPasses, templateFile, req, health, prepared, tokenHist>>

InitBackground ==
  /\ certs = Production /\ ServerStarted /\ picker = NoPicker
  /\ canvas \in { [kind |-> "background", pc |-> "decoded", w |-> w, h |-> h, box |-> NoBox] :
                     w, h \in BackgroundDims }

NextBackground == DrawBackground

\* generateStripImage of build 36 drawing a decoded image of any of the
\* sizes below (375 x 98 has the aspect ratio of its canvas).
CoverDims == 1..MaxDim \cup {98, 375, 294, 1125}

\* The overlay branch of generateStripImage of build 36 once loadImage has
\* resolved (part_001, lines 707-726).
DrawCover ==
  /\ canvas.kind = "cover" /\ canvas.pc = "decoded"
  /\ canvas' = [canvas EXCEPT !.pc = "drawn",
                              !.box = CoverBox(canvas.w, canvas.h)]
  /\ UNCHANGED <<now, certs, picker, pendingPasses, templateFile, req, health, prepared, tokenHist>>

InitCover ==
  /\ certs = Production /\ ServerStarted /\ picker = NoPicker
  /\ canvas \in { [kind |-> "cover", pc |-> "decoded", w |-> w, h |-> h, box |-> NoBox] :
                     w, h \in CoverDims }

NextCover == DrawCover

SpecCover == InitCover /\ [][NextCover]_vars

SpecBackground == InitBackground /\ [][NextBackground]_vars

\* ---------------------------------------------------- language picker

\* Option clicks and setLang calls per page.
MaxEvents == 2

\* The codes of DEFAULT_LANGUAGES (part_001, lines 14-22).
DEFAULT_LANGUAGES == {"en", "es", "fr", "de", "ja", "ko", "zh"}

\* localStorage.getItem('walletmemo-lang') when the page loads: null, the
\* empty string, a configured code, or a code that is not configured.
StoredValues == {"null", ""} \cup DEFAULT_LANGUAGES \cup {"xx"}

\* navigator.language || navigator.userLanguage; "" when neither is set.
NavigatorLanguages == {"", "en-US", "fr", "de-DE", "pt-BR"}

\* The codes setLang is called with.
SetLangCodes == DEFAULT_LANGUAGES \cup {"xx"}

\* String.prototype.toUpperCase on the codes of the model.
toUpperCase(code) ==
  CASE code = "en" -> "EN" [] code = "es" -> "ES" [] code = "fr" -> "FR"
    [] code = "de" -> "DE" [] code = "ja" -> "JA" [] code = "ko" -> "KO"
    [] code = "zh" -> "ZH" [] code = "xx" -> "XX" [] code = "pt" -> "PT"
    [] OTHER -> code

\* (navigator.language || navigator.userLanguage || 'en').split('-')[0]
browserLang(language) ==
  CASE language = "" -> "en"
    [] language = "en-US" -> "en"
    [] language = "de-DE" -> "de"
    [] language = "pt-BR" -> "pt"
    [] OTHER -> language

\* The initial language (line 31): the stored value if it is truthy, else
\* the browser's language if it is configured, else 'en'.
InitialLang(stored, language) ==
  IF stored \notin {"null", ""}
    THEN stored
    ELSE IF browserLang(language) \in DEFAULT_LANGUAGES
           THEN browserLang(language) ELSE "en"

\* The options that carry the 'active' class once each option o has been
\* toggled by o.dataset.lang === lang.
ActiveOptions(lang) == {o \in DEFAULT_LANGUAGES : o = lang}

\* setLang that does not write localStorage.
SetLangState_NoStore(p, lang) ==
  [p EXCEPT !.currentLang = lang, !.label = toUpperCase(lang),
            !.active = ActiveOptions(lang),
            !.calls = Append(@, lang),
            !.events = Append(@, <<"setLang", lang>>)]

\* The page after the click handler of the option with data-lang = lang
\* (lines 76-88).
ClickState(p, lang) ==
  [p EXCEPT !.currentLang = lang, !.stored = lang,
            !.label = toUpperCase(lang),
            !.active = (@ \ DEFAULT_LANGUAGES) \cup {lang},
            !.open = FALSE,
            !.calls = Append(@, lang),
            !.events = Append(@, <<"click", lang>>)]

\* The page after setLang(lang) (lines 94-102).
SetLangState(p, lang) ==
  [p EXCEPT !.currentLang = lang, !.label = toUpperCase(lang),
            !.active = ActiveOptions(lang), !.stored = lang,
            !.calls = Append(@, lang),
            !.events = Append(@, <<"setLang", lang>>)]

PickerOnly ==
  UNCHANGED <<now, certs, canvas, pendingPasses, templateFile, req, health,
              prepared, tokenHist>>

\* createLangPicker(container) with the default options (lines 24-92).
CreateLangPicker ==
  /\ picker.pc = "load"
  /\ LET currentLang == InitialLang(picker.stored, picker.language)
     IN  picker' = [picker EXCEPT !.pc = "ready",
                                  !.currentLang = currentLang,
                                  !.label = toUpperCase(currentLang),
                                  !.active = ActiveOptions(currentLang)]
  /\ PickerOnly

\* A click on the picker's button (lines 63-66).
ToggleOpen ==
  /\ picker.pc = "ready"
  /\ picker' = [picker EXCEPT !.open = ~@]
  /\ PickerOnly

\* A click outside the picker (lines 68-72).
ClickOutside ==
  /\ picker.pc = "ready" /\ picker.open
  /\ picker' = [picker EXCEPT !.open = FALSE]
  /\ PickerOnly

\* A click on the option with data-lang = lang (lines 75-89).
ClickOption(lang) ==
  /\ picker.pc = "ready" /\ Len(picker.events) < MaxEvents
  /\ picker' = ClickState(picker, lang)
  /\ PickerOnly

\* setLang(lang) on the returned object (lines 94-102).
SetLang(lang) ==
  /\ picker.pc = "ready" /\ Len(picker.events) < MaxEvents
  /\ picker' = SetLangState(picker, lang)
  /\ PickerOnly

InitPicker ==
  /\ certs = Production /\ ServerStarted /\ canvas = NoCanvas
  /\ picker \in { [NoPicker EXCEPT !.pc = "load", !.stored = st, !.language = nl] :
                     st \in StoredValues, nl \in NavigatorLanguages }

NextPicker ==
  \/ CreateLangPicker
  \/ ToggleOpen
  \/ ClickOutside
  \/ \E lang \in DEFAULT_LANGUAGES : ClickOption(lang)
  \/ \E lang \in SetLangCodes : SetLang(lang)

SpecPicker == InitPicker /\ [][NextPicker]_vars

\* ------------------------------------------------------------- claims

Downloads == {r \in Req : req[r].route = "download"}

\* C1: a token is single-use: at most one download-pass call ever finds an
\* entry under it, and once an entry under it has been deleted (consumed or
\* swept) the token is never in the store again.
C1_SingleUseToken ==
  \A t \in DOMAIN tokenHist :
    /\ tokenHist[t].found <= 1
    /\ tokenHist[t].gone => t \notin DOMAIN pendingPasses

\* C2: of the download-pass handlers, at most one obtains a given stored
\* entry; a handler that finds no entry answers 404 and builds no pass.
C2_OneHandlerGetsEntry ==
  /\ \A r1, r2 \in Downloads :
       (r1 # r2 /\ req[r1].found /\ req[r2].found)
         => req[r1].entryId # req[r2].entryId
  /\ \A r \in Downloads :
       ~req[r].found
         => req[r].pc = "done" /\ req[r].res = NotFoundResponse /\ ~req[r].invoked

\* Two download-pass calls for one token overlap: the first is still building
\* its pass when the second is answered 404.
C2_Witness ==
  \E r1, r2 \in Downloads :
    /\ req[r1].token = req[r2].token
    /\ req[r1].found /\ req[r1].pc \in {"from", "images"}
    /\ ~req[r2].found /\ req[r2].res.status = 404

\* C3: a download-pass call for a token whose entry is older than the TTL
\* builds no pass and answers 404.
C3_ExpiredNeverServed ==
  \A r \in Downloads :
    req[r].age > PASS_TOKEN_TTL
      => ~req[r].invoked /\ (req[r].pc = "done" => req[r].res.status = 404)

\* C4: a download-pass call that found a pending entry and ended in an error
\* leaves the entry in the store: while the entry is unexpired and no other
\* download-pass call has taken it, it is still there.
C4_ErrorKeepsToken ==
  \A r \in Downloads :
    ( /\ req[r].found /\ req[r].pc = "done" /\ req[r].res.status = 500
      /\ now - req[r].createdAt <= PASS_TOKEN_TTL
      /\ tokenHist[req[r].token].found = 1 )
      => /\ req[r].token \in DOMAIN pendingPasses
         /\ pendingPasses[req[r].token].createdAt = req[r].createdAt

\* C5: no step changes pass.json of the shared template.
C5_TemplateUntouched == [][templateFile' = templateFile]_vars

\* C6: the colors of every pass built are the palette values of the color of
\* the createPass call that built it.
C6_OwnColors ==
  \A r \in Req :
    req[r].loaded
      => /\ req[r].pass.backgroundColor = getBackgroundColor(req[r].args.color)
         /\ req[r].pass.foregroundColor = logoTextColors(req[r].args.color)
         /\ req[r].pass.labelColor = logoTextColors(req[r].args.color)

C8_FreshSerial ==
  \A r1, r2 \in Req :
    (r1 # r2 /\ req[r1].loaded /\ req[r2].loaded)
      => req[r1].pass.serialNumber # req[r2].pass.serialNumber

\* C9: a request whose createPass threw is answered 500 with no bundle and
\* not as a pkpass; a bundle is sent only if it was built and signed.
C9_NoPartialBundle ==
  \A r \in Req :
    req[r].pc = "done"
      => /\ req[r].threw
              => /\ req[r].res.status = 500
                 /\ req[r].res.ctype # PkpassType
                 /\ req[r].res.body # "bundle"
         /\ (req[r].res.ctype = PkpassType \/ req[r].res.body = "bundle")
              => req[r].signed /\ ~req[r].threw

\* createPass has thrown on two routes, download-pass and another.
C9_Witness ==
  \E r1, r2 \in Req :
    /\ req[r1].route = "download" /\ req[r2].route \in {"generate", "test"}
    /\ req[r1].threw /\ req[r1].pc = "done"
    /\ req[r2].threw /\ req[r2].pc = "done"

\* No source holds both the certificate container and the WWDR certificate.
SigningMaterialMissing ==
  /\ ~(certs.envP12 /\ certs.envWwdr)
  /\ ~(certs.fileP12 /\ certs.fileWwdr)

\* C10 as claimed: with checkCerts() false every pass route answers 500
\* without calling createPass, and health reports missing-certs.
C10_AllAnswer500 ==
  ~checkCerts
    => /\ \A r \in Req :
            /\ ~req[r].invoked
            /\ req[r].pc = "done" => req[r].res.status = 500
       /\ health \in {"none", "missing-certs"}

\* C10 as amended: with the signing material missing no pass route calls
\* createPass; generate-pass and test-pass answer 500, download-pass answers
\* 404 for a token with no pending entry and 500 otherwise; health reports
\* missing-certs.
C10_NoPassWithoutCerts ==
  SigningMaterialMissing
    => /\ \A r \in Req :
            /\ ~req[r].invoked
            /\ req[r].pc = "done"
                 => req[r].res.status =
                      IF req[r].route = "download" /\ ~req[r].found THEN 404 ELSE 500
       /\ health \in {"none", "missing-certs"}

\* Without signing material, health has answered and a download-pass call
\* that found its entry was answered 500.
C10_Witness ==
  /\ SigningMaterialMissing
  /\ health = "missing-certs"
  /\ \E r \in Downloads : req[r].found /\ req[r].res.status = 500

\* C11: the certificate container is read and decoded once in total,
\* whatever the number of createPass calls.
C11_LoadedOnce == CertificateLoads <= 1

\* The clock values a behaviour can show, and the tokens prepare-pass can
\* return at them.
ClockValues == {a * PASS_TOKEN_TTL + b : a \in 0..MaxTicks, b \in 0..MaxTicks}
AllTokens == {Token(t, s) : t \in ClockValues, s \in Suffix}

\* C12: an entry of the store that is older than the TTL is eventually not
\* in the store (retrieved, or removed without any retrieval).
C12_OrphansReclaimed ==
  \A t \in AllTokens :
    (t \in DOMAIN pendingPasses /\ now - pendingPasses[t].createdAt > PASS_TOKEN_TTL)
      ~> (t \notin DOMAIN pendingPasses)

\* A body the text calls malformed: a color outside the palette, a text that
\* is not a string, a drawing data URL that is not an image.
Malformed(body) ==
  \/ body.color \notin {"blue", "yellow", "pink"}
  \/ body.text = "<42>"
  \/ body.drawingDataUrl = "bad"

\* C13: a malformed body never reaches createPass (template loading,
\* signing) and is answered 4xx, on generate-pass and on prepare-pass, which
\* stores no such body and returns no token for it.
C13_MalformedRejected ==
  /\ \A r \in Req :
       (req[r].route = "generate" /\ req[r].invoked) => ~Malformed(req[r].args)
  /\ \A i \in 1..Len(prepared) : ~Malformed(prepared[i].body)
  /\ \A t \in DOMAIN pendingPasses : ~Malformed(CreatePassArgs(pendingPasses[t]))

MemoField(text) == [key |-> "memo", label |-> "Note", value |-> text]

\* C14 as claimed: the pass carries the memo field with the request's text
\* exactly when the text is non-empty (blanks included); otherwise it has
\* the template's field list.
C14_MemoIffNonEmpty ==
  \A r \in Req :
    req[r].loaded
      => req[r].pass.secondaryFields =
           IF req[r].args.text # "" THEN MemoField(req[r].args.text)
                                    ELSE TemplateSecondary

\* C14 as amended: the pass carries the memo field, its value the text as
\* sent, exactly when the text is a string with a character that is not
\* white space; for an absent, empty or blank text it has the template's
\* field list; a truthy text that is not a string yields no pass.
C14_MemoIffNotBlank ==
  \A r \in Req :
    /\ req[r].loaded
         => req[r].pass.secondaryFields =
              IF req[r].args.text \in {"", "  "} THEN TemplateSecondary
                                                 ELSE MemoField(req[r].args.text)
    /\ req[r].args.text = "<42>" => ~req[r].loaded /\ ~req[r].signed

\* A pass was built for a memo sent with blanks around it.
C14_Witness ==
  \E r \in Req :
    /\ req[r].args.text = " memo " /\ req[r].signed
    /\ req[r].pass.secondaryFields.value = " memo "

\* C15: a prepare-pass call leaves in the store the entry it has put, no
\* entry older than the TTL, and every other entry that was there and is not
\* older than the TTL, unchanged.
C15_SweepOnPut ==
  [][ prepared' # prepared =>
        LET put == prepared'[Len(prepared')]
        IN  /\ put.token \in DOMAIN pendingPasses'
            /\ pendingPasses'[put.token] =
                 [ text |-> put.body.text, color |-> put.body.color,
                   drawingDataUrl |-> put.body.drawingDataUrl, createdAt |-> now ]
            /\ \A k \in DOMAIN pendingPasses' :
                 now - pendingPasses'[k].createdAt <= PASS_TOKEN_TTL
            /\ \A k \in DOMAIN pendingPasses :
                 (k # put.token /\ now - pendingPasses[k].createdAt <= PASS_TOKEN_TTL)
                   => /\ k \in DOMAIN pendingPasses'
                      /\ pendingPasses'[k] = pendingPasses[k] ]_vars

\* A prepare-pass call has swept an entry nobody fetched and left its own.
C15_Witness ==
  \E t \in DOMAIN tokenHist :
    /\ tokenHist[t].gone /\ tokenHist[t].found = 0
    /\ t \notin DOMAIN pendingPasses
    /\ \E k \in DOMAIN pendingPasses : pendingPasses[k].createdAt = now

\* C16: for a drawing above the size threshold that does not decode,
\* generateStripImage does not reject, and the strip of the pass built is the
\* plain fill of the request's color without the overlay.
C16_DecodeFailureDegrades ==
  \A r \in Req :
    req[r].args.drawingDataUrl = "bad"
      => /\ ~req[r].strip.threw
         /\ req[r].signed
              => req[r].strip =
                   [ fill |-> flatColors(req[r].args.color),
                     overlay |-> FALSE, threw |-> FALSE ]

\* A pass was returned for a request whose drawing does not decode.
C16_Witness ==
  \E r \in Req :
    /\ req[r].args.drawingDataUrl = "bad"
    /\ req[r].pc = "done" /\ req[r].res = PassResponse

\* C17: the rectangle of a w x h drawing on the 1125 x 432 strip: its width
\* is 0.9 * 1125 if w/h > 1125/432, else its height is 0.9 * 432; the other
\* side keeps the aspect ratio w/h; the margins left and right are equal,
\* and so are those above and below.
C17_ContainLaw ==
  canvas.pc = "drawn"
    => LET w == canvas.w
           h == canvas.h
           b == canvas.box
       IN  /\ w * 432 > h * 1125 => b.drawWidth = [n |-> 2025, d |-> 2]
           /\ w * 432 <= h * 1125 => b.drawHeight = [n |-> 1944, d |-> 5]
           /\ b.drawWidth.n * b.drawHeight.d * h = b.drawHeight.n * b.drawWidth.d * w
           /\ b.drawX = QSub(QSub(Q(1125, 1), b.drawWidth), b.drawX)
           /\ b.drawY = QSub(QSub(Q(432, 1), b.drawHeight), b.drawY)

\* A drawing wider than the strip's aspect ratio has been placed.
C17_Witness ==
  /\ canvas.pc = "drawn"
  /\ canvas.w * 432 > canvas.h * 1125
  /\ canvas.box.drawY.n > 0

\* C18: the files of every bundle built are the template's files and the
\* five rendered images, whatever the text, color and drawing.
C18_SameFileNames ==
  \A r \in Req :
    req[r].signed
      => /\ req[r].files =
              TemplateFiles \cup
                {"strip.png", "strip@2x.png", "strip@3x.png", "icon.png", "icon@2x.png"}
         /\ Cardinality(req[r].files) = Cardinality(TemplateFiles) + 5

\* A bundle was built for a request with a memo and a drawing.
C18_Witness ==
  \E r \in Req :
    /\ req[r].signed /\ req[r].files # {}
    /\ req[r].args.text = "memo" /\ req[r].args.drawingDataUrl = "big"

\* C19: in a createPass call, getAsBuffer is the last call on the pass: the
\* serial number, the back field, the memo field and the five addBuffer
\* calls all come before it, and nothing after it.
C19_HashAfterFinal ==
  \A r \in Req :
    LET ops == req[r].ops
    IN  /\ \A i \in DOMAIN ops : ops[i] = "getAsBuffer" => i = Len(ops)
        /\ req[r].signed
             => /\ ops # <<>> /\ ops[Len(ops)] = "getAsBuffer"
                /\ Cardinality({i \in DOMAIN ops : ops[i] = "addBuffer"}) = 5
                /\ \E i \in DOMAIN ops : ops[i] = "serialNumber"

\* A pass with a memo field was built and signed.
C19_Witness ==
  \E r \in Req :
    /\ req[r].signed
    /\ \E i \in DOMAIN req[r].ops : req[r].ops[i] = "secondaryFields"

\* C20 as claimed: apart from the colors, the serial number and, for a text
\* given, the memo field, every field of the pass is the template's.
C20_PassThrough ==
  \A r \in Req :
    req[r].loaded
      => /\ req[r].pass.organizationName = TemplateDescriptor.organizationName
         /\ req[r].pass.backField = TemplateDescriptor.backField
         /\ req[r].args.text = ""
              => req[r].pass.secondaryFields = TemplateDescriptor.secondaryFields

\* C20 as amended: apart from the colors, the serial number, the value of
\* the first back field (the build number) and, for a text given, the memo
\* field, every field of the pass is the template's.
C20_PassThroughButBuild ==
  \A r \in Req :
    req[r].loaded
      => /\ req[r].pass.organizationName = TemplateDescriptor.organizationName
         /\ req[r].pass.backField = "83"
         /\ req[r].args.text = ""
              => req[r].pass.secondaryFields = TemplateDescriptor.secondaryFields

\* Two passes were built one over the other's template write, one of them
\* for a request without text.
C20_Witness ==
  \E r1, r2 \in Req :
    /\ r1 # r2 /\ req[r1].loaded /\ req[r2].loaded
    /\ req[r1].args.text = "" /\ req[r2].args.text # ""

\* The descriptor colors of the two palette entries the requests use.
OwnColors(color) ==
  IF color = "pink"
    THEN [background |-> "rgb(228, 184, 192)", text |-> "rgb(195, 150, 160)"]
    ELSE [background |-> "rgb(157, 213, 238)", text |-> "rgb(120, 175, 200)"]

\* C21: when createPass calls do not overlap, the colors and the memo field
\* of every pass are those of its own request, and its serial number is one
\* drawn after the template's, whatever requests ran before it and whatever
\* they left in pass.json.
C21_SequentialOwnRequest ==
  \A r \in Req :
    req[r].loaded
      => /\ req[r].pass.backgroundColor = OwnColors(req[r].args.color).background
         /\ req[r].pass.foregroundColor = OwnColors(req[r].args.color).text
         /\ req[r].pass.labelColor = OwnColors(req[r].args.color).text
         /\ req[r].pass.secondaryFields =
              IF req[r].args.text = "" THEN TemplateSecondary
                                       ELSE MemoField(req[r].args.text)
         /\ req[r].pass.serialNumber # NoToken
         /\ req[r].pass.serialNumber.t \in 0..now

\* A pink pass was built after a blue one had been built and had left its
\* colors in pass.json, or the other way round.
C21_Witness ==
  \E r1, r2 \in Req :
    /\ req[r1].signed /\ req[r2].signed
    /\ req[r1].args.color = "blue" /\ req[r2].args.color = "pink"
    /\ req[r1].args.text # req[r2].args.text

\* C22: the token a prepare-pass call returns is not in the store when the
\* call puts its entry, so the call replaces no pending entry, and every
\* pending token maps to the body of the first call that returned it.
C22_FreshToken ==
  [][ prepared' # prepared =>
        LET put == prepared'[Len(prepared')]
        IN  /\ put.token \notin DOMAIN pendingPasses
            /\ \A k \in DOMAIN pendingPasses :
                 k \in DOMAIN pendingPasses' => pendingPasses'[k] = pendingPasses[k] ]_vars

\* C23: the strip carries the drawing only if the request has a
\* drawingDataUrl of more than 1000 characters; for an absent one and for one
\* of 1000 characters or fewer nothing is decoded (so nothing can fail) and
\* the strip is the plain fill.
C23_SizeGate ==
  \A r \in Req :
    req[r].signed
      => /\ req[r].strip.overlay => req[r].args.drawingDataUrl = "big"
         /\ req[r].args.drawingDataUrl \in {"none", "small"}
              => req[r].strip =
                   [ fill |-> flatColors(req[r].args.color),
                     overlay |-> FALSE, threw |-> FALSE ]
         /\ req[r].args.drawingDataUrl = "big" => req[r].strip.overlay

\* A pass was built for a drawing of exactly 1000 characters.
C23_Witness ==
  \E r \in Req :
    /\ req[r].args.drawingDataUrl = "small"
    /\ req[r].signed /\ req[r].strip.fill # ""

\* x <= y for two fractions.
QLe(x, y) == QSub(y, x).n >= 0

\* C24: the rectangle of a drawing on the strip is inside the canvas and
\* inside 90% of its width and height, and has the drawing's aspect ratio.
C24_ContainFit ==
  (canvas.kind = "strip" /\ canvas.pc = "drawn")
    => LET b == canvas.box
       IN  /\ QLe(b.drawWidth, Q(10125, 10))
           /\ QLe(b.drawHeight, Q(3888, 10))
           /\ b.drawX.n >= 0 /\ b.drawY.n >= 0
           /\ b.drawWidth.n > 0 /\ b.drawHeight.n > 0
           /\ QLe(b.drawX, QSub(Q(1125, 1), b.drawWidth))
           /\ QLe(b.drawY, QSub(Q(432, 1), b.drawHeight))
           /\ QDiv(b.drawWidth, b.drawHeight) = Q(canvas.w, canvas.h)

\* A drawing taller than the strip's aspect ratio has been placed, with
\* room left and right.
C24_Witness ==
  /\ canvas.kind = "strip" /\ canvas.pc = "drawn"
  /\ canvas.w * 432 < canvas.h * 1125
  /\ canvas.box.drawX.n > 0

\* The parts of C25 that hold: the rectangle has the drawing's aspect ratio,
\* is within 90% of the canvas width and height and inside the canvas, and
\* has equal margins left and right.
BackgroundFits ==
  LET b == canvas.box
  IN  /\ QDiv(b.drawWidth, b.drawHeight) = Q(canvas.w, canvas.h)
      /\ QLe(b.drawWidth, Q(1530, 1))
      /\ QLe(b.drawHeight, Q(17964, 10))
      /\ b.drawX.n >= 0
      /\ QMul(Q(2, 1), b.drawX) = QSub(Q(1700, 1), b.drawWidth)

\* C25 as claimed: the rectangle of a drawing on the background keeps the
\* aspect ratio, fits within 90% of the canvas, and is centered on both axes.
C25_ContainCentered ==
  (canvas.kind = "background" /\ canvas.pc = "drawn")
    => /\ BackgroundFits
       /\ QMul(Q(2, 1), canvas.box.drawY) = QSub(Q(1996, 1), canvas.box.drawHeight)

\* C25 as amended: the rectangle keeps the aspect ratio, fits within 90% of
\* the canvas width and within 63% (90% of 70%) of its height, is centered
\* on the horizontal axis, and starts 8% of the canvas height below the top,
\* ending above 71% of it.
C25_ContainUpperPart ==
  (canvas.kind = "background" /\ canvas.pc = "drawn")
    => /\ BackgroundFits
       /\ QLe(canvas.box.drawHeight, Q(125748, 100))
       /\ canvas.box.drawY = Q(15968, 100)
       /\ QLe(canvas.box.drawY, QSub(Q(141716, 100), canvas.box.drawHeight))

\* A drawing as large as the canvas has been placed, below the top margin.
C25_Witness ==
  /\ canvas.kind = "background" /\ canvas.pc = "drawn"
  /\ canvas.w = 1700 /\ canvas.h = 1996
  /\ canvas.box.drawY.n > 0

\* C26: the rectangle of a drawing on the 1125 x 294 strip of build 36 has
\* the drawing's aspect ratio, covers the canvas, has the canvas's width or
\* its height, and has equal overhang left and right, and above and below.
C26_CoverLaw ==
  (canvas.kind = "cover" /\ canvas.pc = "drawn")
    => LET b == canvas.box
       IN  /\ QDiv(b.drawWidth, b.drawHeight) = Q(canvas.w, canvas.h)
           /\ b.drawX.n <= 0 /\ b.drawY.n <= 0
           /\ QLe(QSub(Q(1125, 1), b.drawWidth), b.drawX)
           /\ QLe(QSub(Q(294, 1), b.drawHeight), b.drawY)
           /\ b.drawWidth = Q(1125, 1) \/ b.drawHeight = Q(294, 1)
           /\ QMul(Q(2, 1), b.drawX) = QSub(Q(1125, 1), b.drawWidth)
           /\ QMul(Q(2, 1), b.drawY) = QSub(Q(294, 1), b.drawHeight)

\* A drawing wider than the canvas's aspect ratio has been placed, cropped
\* left and right.
C26_Witness ==
  /\ canvas.kind = "cover" /\ canvas.pc = "drawn"
  /\ canvas.w * 294 > canvas.h * 1125
  /\ canvas.box.drawX.n < 0

\* The palette as the text gives it: per color the descriptor's background,
\* its foreground and label, and the fill of strip and icon.
PaletteRow(color) ==
  CASE color = "yellow" ->
         [background |-> "rgb(226, 208, 96)", text |-> "rgb(190, 175, 60)", fill |-> "#F0E480"]
    [] color = "pink" ->
         [background |-> "rgb(228, 184, 192)", text |-> "rgb(195, 150, 160)", fill |-> "#F0C8D0"]
    [] OTHER ->
         [background |-> "rgb(157, 213, 238)", text |-> "rgb(120, 175, 200)", fill |-> "#B8E8F8"]

\* C27: the three descriptor colors, the strip fill and the icon fill of
\* every pass built all come from the palette row of the request's color,
\* the blue row for a color outside the palette.
C27_PaletteConsistent ==
  \A r \in Req :
    req[r].signed
      => LET row == PaletteRow(req[r].args.color)
         IN  /\ req[r].pass.backgroundColor = row.background
             /\ req[r].pass.foregroundColor = row.text
             /\ req[r].pass.labelColor = row.text
             /\ req[r].strip.fill = row.fill
             /\ req[r].icon = row.fill

\* C28: under every combination of the two variables and the two files,
\* when checkCerts() is true the source getCertificates reads holds both the
\* container and the WWDR certificate, and every createPass call has read
\* them from that one source: the environment if both variables are set,
\* otherwise the two files, both present.
C28_SourcesAgree ==
  /\ checkCerts
       => \/ getCertificatesSource = "env" /\ certs.envP12 /\ certs.envWwdr
          \/ getCertificatesSource = "files" /\ certs.fileP12 /\ certs.fileWwdr
  /\ \A r \in Req :
       req[r].invoked
         => \/ req[r].source = "env" /\ certs.envP12 /\ certs.envWwdr
            \/ /\ req[r].source = "files" /\ ~(certs.envP12 /\ certs.envWwdr)
               /\ certs.fileP12 /\ certs.fileWwdr

\* createPass has read the two files although one of the variables is set.
C28_Witness ==
  \E r \in Req :
    /\ req[r].invoked /\ req[r].source = "files"
    /\ certs.envP12 /\ ~certs.envWwdr
    /\ req[r].pc = "done" /\ req[r].res = PassResponse

\* The codes of the clicks and setLang calls so far, in order.
ChosenCodes == [i \in 1..Len(picker.events) |-> picker.events[i][2]]

PickerAgrees ==
  /\ picker.stored = picker.currentLang
  /\ picker.label = toUpperCase(picker.currentLang)
  /\ picker.calls = ChosenCodes

\* The statement of C29 read over every state of the page, the one right
\* after createLangPicker included.
C29_AlwaysAgree == picker.pc = "ready" => PickerAgrees

\* C29: once at least one option was clicked or setLang was called,
\* getCurrentLang() equals the value stored under 'walletmemo-lang' and is
\* the code of the last click or setLang, the label shows that code in upper
\* case, and onLanguageChange was called exactly once per click or setLang,
\* in order, with the new code. Before the first of them the label shows the
\* current language in upper case and onLanguageChange was not called.
C29_AgreeAfterChange ==
  picker.pc = "ready"
    => /\ picker.label = toUpperCase(picker.currentLang)
       /\ picker.calls = ChosenCodes
       /\ Len(picker.events) > 0
            => /\ picker.stored = picker.currentLang
               /\ picker.currentLang = picker.events[Len(picker.events)][2]

\* A first visit in French, then a click on Deutsch, then setLang('ja').
C29_Witness ==
  /\ picker.pc = "ready" /\ picker.language = "fr"
  /\ picker.events = << <<"click", "de">>, <<"setLang", "ja">> >>
  /\ picker.stored = "ja" /\ picker.label = "JA"
  /\ picker.calls = <<"de", "ja">>

\* C30: in every state of the page from creation on, exactly one option
\* carries 'active', it is the option of getCurrentLang(), and
\* getCurrentLang() is a configured code.
C30_OneActiveOption ==
  picker.pc = "ready"
    => /\ Cardinality(picker.active) = 1
       /\ picker.active = {picker.currentLang}
       /\ picker.currentLang \in DEFAULT_LANGUAGES

====
